---- MODULE Spec2Model ----
(***************************************************************************)
(* SPSCRing<T, Size> (include/SPSCRing.h): a bounded lock-free single-      *)
(* producer / single-consumer ring buffer.                                 *)
(*                                                                         *)
(* Every atomic load, atomic store, slot access and counter increment of   *)
(* try_emplace and try_pop is one step of the thread that runs it; the     *)
(* steps of the two threads interleave freely.  head_ and tail_ have one   *)
(* writer each and are read by the other thread with acquire loads that    *)
(* pair with the writer's release stores, so an interleaving of the        *)
(* individual accesses is the behaviour of the two threads.                *)
(*                                                                         *)
(* T is one of the scalar types of include/Types.h, for which copy         *)
(* assignment and move assignment both copy the value; T{} is 0.           *)
(***************************************************************************)
EXTENDS Integers, Sequences, FiniteSets

\* ------------------------------------------------------------------ bounds

\* Largest template argument Size tried.
MaxSize == 8

\* Items handed to try_emplace are drawn from 1..MaxItem.
MaxItem == 2

\* try_emplace calls the producer thread makes in Spec.
MaxEmplaceCalls == 5

\* try_pop calls the consumer thread makes in Spec.
MaxPopCalls == 5

\* Operations the single-threaded driver of SpecSingle performs.
MaxOps == 11

\* Items the stress producer of SpecStress pushes (M).
MaxStressItems == 9

\* Failed pushes the stress producer counts before it waits without counting.
MaxStressFailed == 2

\* ----------------------------------------------------------- bit operations

\* a & b on non-negative integers, bit by bit.
RECURSIVE BitAnd(_, _)
BitAnd(a, b) ==
    IF a = 0 \/ b = 0 THEN 0
    ELSE (a % 2) * (b % 2) + 2 * BitAnd(a \div 2, b \div 2)

\* is_power_of_2 of Types.h.
is_power_of_2(n) == n > 0 /\ BitAnd(n, n - 1) = 0

\* The second static_assert letting Size 1 through.
StaticAssertAtLeastOne(n) == n >= 1

\* The two static_asserts of the class template.
StaticAssertPowerOfTwo(n) == BitAnd(n, n - 1) = 0

StaticAssertAtLeastTwo(n) == n >= 2

\* The sizes the class can be instantiated with.
Sizes == {n \in 0..MaxSize : StaticAssertPowerOfTwo(n) /\ StaticAssertAtLeastTwo(n)}

Values == 1..MaxItem

\* T{}: the value the constructor puts in every slot.
DefaultT == 0

Variants == {"copy", "move"}

VARIABLES
    Size,                \* template argument
    head_,               \* std::atomic<size_t>, written by the producer
    tail_,               \* std::atomic<size_t>, written by the consumer
    buffer_,             \* T buffer_[Size]
    push_count_,
    pop_count_,
    failed_push_count_,
    p_pc,                \* producer's position inside try_emplace
    p_variant,           \* overload running: "copy", "move" or "none"
    p_item,              \* try_emplace's argument
    p_current_head,      \* try_emplace's local current_head
    p_next_head,         \* try_emplace's local next_head
    p_ret,               \* value the last try_emplace returned
    c_pc,                \* consumer's position inside try_pop
    c_current_tail,      \* try_pop's local current_tail
    c_item,              \* the caller's T& item of try_pop
    c_ret,               \* value the last try_pop returned
    driver,              \* who calls: "threads", "single", "stress", "monitor";
                         \* "config" before the build, "rejected" if it failed
    emplace_calls,       \* try_emplace calls the producer thread of Spec made
    pop_calls,           \* try_pop calls the consumer thread of Spec made
    accepted,            \* items of the try_emplace calls that returned true
    received,            \* items the try_pop calls that returned true gave
    hist,                \* the single-threaded driver's log of finished calls
    m_pc,                \* monitoring thread's position inside a status query
    m_query,             \* query running or last run: "empty", "full", "size"
    m_head,              \* the query's loaded head
    m_tail,              \* the query's loaded tail
    m_ret,               \* value the last empty() or full() returned
    m_size,              \* value the last size() returned
    status_calls,        \* status queries the monitoring thread made
    m_ops,               \* calls begun before a query begun at rest, else -1
    m_at_head,           \* <<head stores, tail stores>> done at the head load
    m_at_tail,           \* <<head stores, tail stores>> done at the tail load
    m_seen               \* numbers of items the ring held during the query

vars == <<Size, head_, tail_, buffer_, push_count_, pop_count_,
          failed_push_count_, p_pc, p_variant, p_item, p_current_head,
          p_next_head, p_ret, c_pc, c_current_tail, c_item, c_ret, driver,
          emplace_calls, pop_calls, accepted, received, hist, m_pc, m_query,
          m_head, m_tail, m_ret, m_size, status_calls, m_ops, m_at_head,
          m_at_tail, m_seen>>

ring == <<head_, tail_, buffer_, push_count_, pop_count_, failed_push_count_>>

producer_locals == <<p_pc, p_variant, p_item, p_current_head, p_next_head, p_ret>>

consumer_locals == <<c_pc, c_current_tail, c_item, c_ret>>

monitor == <<m_pc, m_query, m_head, m_tail, m_ret, m_size, status_calls,
             m_ops, m_at_head, m_at_tail>>

\* ------------------------------------------------------------------ helpers

MASK == Size - 1

\* next_index without the mask.
next_index_unmasked(current) == current + 1

\* next_index reducing modulo the capacity instead of masking with MASK.
next_index_mod_capacity(current) == (current + 1) % MASK

next_index(current) == BitAnd(current + 1, MASK)

capacity == Size - 1

total_pushes == push_count_

total_pops == pop_count_

failed_pushes == failed_push_count_

\* The full check left out.
ring_full_unchecked(next_head, tail) == FALSE

\* The full check taken one slot early.
ring_full_one_early(next_head, tail) ==
    next_head = tail \/ BitAnd(next_head + 1, Size - 1) = tail

\* The comparison try_emplace makes of next_head with the tail_ it loaded.
ring_full(next_head, tail) == next_head = tail

\* The empty check reporting an empty ring while one item is left.
ring_empty_one_early(current_tail, head) ==
    current_tail = head \/ BitAnd(current_tail + 1, Size - 1) = head

\* The empty check made on the index after current_tail.
ring_empty_next_index(current_tail, head) ==
    BitAnd(current_tail + 1, Size - 1) = head

\* The comparison try_pop makes of current_tail with the head_ it loaded.
ring_empty(current_tail, head) == current_tail = head

\* return head == tail;  (empty)
empty_value(head, tail) == head = tail

\* return next_index(head) == tail;  (full)
full_value(head, tail) == next_index(head) = tail

\* size() subtracting without the mask.
size_value_unmasked(head, tail) == (head - tail) % (2 ^ 16)

\* size() subtracting the operands the other way round.
size_value_reversed(head, tail) == BitAnd((tail - head) % (2 ^ 16), Size - 1)

\* return (head - tail) & MASK;  (size)
size_value(head, tail) == BitAnd((head - tail) % (2 ^ 16), MASK)

\* The driver's log: only the single-threaded driver keeps one.
Log(entry) == hist' = IF driver = "single" THEN Append(hist, entry) ELSE hist

\* Head stores and tail stores done so far.
PublishedCount == Len(accepted) + (IF p_pc = "count" THEN 1 ELSE 0)

ConsumedCount == Len(received) + (IF c_pc = "count" THEN 1 ELSE 0)

Occupancy == PublishedCount - ConsumedCount

\* The numbers of items the ring holds while a status query runs: a store
\* to head_ or tail_ adds the number it leaves in the ring.
Observe ==
    m_seen' = IF m_pc = "idle" THEN m_seen ELSE m_seen \cup {Occupancy'}

\* ------------------------------------------------------------- construction

Construct(d) ==
    /\ Size \in Sizes
    /\ head_ = 0
    /\ tail_ = 0
    /\ buffer_ = [i \in 0..(Size - 1) |-> DefaultT]
    /\ push_count_ = 0
    /\ pop_count_ = 0
    /\ failed_push_count_ = 0
    /\ p_pc = "idle"
    /\ p_variant = "none"
    /\ p_item = DefaultT
    /\ p_current_head = 0
    /\ p_next_head = 0
    /\ p_ret = FALSE
    /\ c_pc = "idle"
    /\ c_current_tail = 0
    /\ c_item = DefaultT
    /\ c_ret = FALSE
    /\ driver = d
    /\ emplace_calls = 0
    /\ pop_calls = 0
    /\ accepted = <<>>
    /\ received = <<>>
    /\ hist = <<>>
    /\ m_pc = "idle"
    /\ m_query = "none"
    /\ m_head = 0
    /\ m_tail = 0
    /\ m_ret = FALSE
    /\ m_size = 0
    /\ status_calls = 0
    /\ m_ops = 0
    /\ m_at_head = <<0, 0>>
    /\ m_at_tail = <<0, 0>>
    /\ m_seen = {}

Init == Construct("threads")

\* ---------------------------------------------------------------- producer

\* try_emplace is entered: current_head = head_.load(relaxed), next_head.
try_emplace_begin(variant, item) ==
    /\ p_pc = "idle"
    /\ p_pc' = "check"
    /\ p_variant' = variant
    /\ p_item' = item
    /\ p_current_head' = head_
    /\ p_next_head' = next_index(head_)
    /\ UNCHANGED <<Size, monitor, m_seen, ring, p_ret, consumer_locals, driver, accepted,
                   received, hist>>

\* try_emplace_check waiting for room instead of reporting a full ring.
try_emplace_check_waits ==
    /\ p_pc = "check"
    /\ ~ring_full(p_next_head, tail_)
    /\ p_pc' = "write"
    /\ UNCHANGED <<Size, monitor, m_seen, ring, p_variant, p_item, p_current_head, p_next_head,
                   p_ret, consumer_locals, driver, emplace_calls, pop_calls,
                   accepted, received, hist>>

\* if (next_head == tail_.load(acquire))
try_emplace_check ==
    /\ p_pc = "check"
    /\ p_pc' = IF ring_full(p_next_head, tail_) THEN "fail" ELSE "write"
    /\ UNCHANGED <<Size, monitor, m_seen, ring, p_variant, p_item, p_current_head, p_next_head,
                   p_ret, consumer_locals, driver, emplace_calls, pop_calls,
                   accepted, received, hist>>

\* try_emplace_fail counting the refused push in push_count_.
try_emplace_fail_counts_push ==
    /\ p_pc = "fail"
    /\ push_count_' = push_count_ + 1
    /\ p_pc' = "idle"
    /\ p_ret' = FALSE
    /\ p_variant' = "none"
    /\ p_item' = DefaultT
    /\ p_current_head' = 0
    /\ p_next_head' = 0
    /\ Log([op |-> "emplace", arg |-> p_item, ret |-> FALSE, out |-> DefaultT])
    /\ UNCHANGED <<Size, monitor, m_seen, head_, tail_, buffer_, pop_count_, failed_push_count_,
                   consumer_locals, driver, emplace_calls, pop_calls,
                   accepted, received>>

\* try_emplace_fail returning false without counting the failed push.
try_emplace_fail_uncounted ==
    /\ p_pc = "fail"
    /\ p_pc' = "idle"
    /\ p_ret' = FALSE
    /\ p_variant' = "none"
    /\ p_item' = DefaultT
    /\ p_current_head' = 0
    /\ p_next_head' = 0
    /\ Log([op |-> "emplace", arg |-> p_item, ret |-> FALSE, out |-> DefaultT])
    /\ UNCHANGED <<Size, monitor, m_seen, ring, consumer_locals, driver, emplace_calls,
                   pop_calls, accepted, received>>

\* failed_push_count_.fetch_add(1, relaxed); return false;
try_emplace_fail ==
    /\ p_pc = "fail"
    /\ failed_push_count_' = failed_push_count_ + 1
    /\ p_pc' = "idle"
    /\ p_ret' = FALSE
    /\ p_variant' = "none"
    /\ p_item' = DefaultT
    /\ p_current_head' = 0
    /\ p_next_head' = 0
    /\ Log([op |-> "emplace", arg |-> p_item, ret |-> FALSE, out |-> DefaultT])
    /\ UNCHANGED <<Size, monitor, m_seen, head_, tail_, buffer_, push_count_, pop_count_,
                   consumer_locals, driver, emplace_calls, pop_calls,
                   accepted, received>>

\* try_emplace_write and the head store in the wrong order: head_ is stored
\* first and the slot is written after it.
try_emplace_write_after_publish ==
    \/ /\ p_pc = "write"
       /\ head_' = p_next_head
       /\ p_pc' = "late_write"
       /\ UNCHANGED <<Size, monitor, tail_, buffer_, push_count_, pop_count_,
                      failed_push_count_, p_variant, p_item, p_current_head,
                      p_next_head, p_ret, consumer_locals, driver,
                      emplace_calls, pop_calls, accepted, received, hist>>
       /\ Observe
    \/ /\ p_pc = "late_write"
       /\ buffer_' = [buffer_ EXCEPT ![p_current_head] = p_item]
       /\ p_pc' = "count"
       /\ UNCHANGED <<Size, monitor, m_seen, head_, tail_, push_count_, pop_count_,
                      failed_push_count_, p_variant, p_item, p_current_head,
                      p_next_head, p_ret, consumer_locals, driver,
                      emplace_calls, pop_calls, accepted, received, hist>>

\* buffer_[current_head] = item;  (or = std::move(item))
try_emplace_write ==
    /\ p_pc = "write"
    /\ buffer_' = [buffer_ EXCEPT ![p_current_head] = p_item]
    /\ p_pc' = "publish"
    /\ UNCHANGED <<Size, monitor, m_seen, head_, tail_, push_count_, pop_count_,
                   failed_push_count_, p_variant, p_item, p_current_head,
                   p_next_head, p_ret, consumer_locals, driver, emplace_calls,
                   pop_calls, accepted, received, hist>>

\* try_emplace_publish storing current_head again instead of next_head.
try_emplace_publish_same_head ==
    /\ p_pc = "publish"
    /\ head_' = p_current_head
    /\ p_pc' = "count"
    /\ UNCHANGED <<Size, monitor, tail_, buffer_, push_count_, pop_count_,
                   failed_push_count_, p_variant, p_item, p_current_head,
                   p_next_head, p_ret, consumer_locals, driver, emplace_calls,
                   pop_calls, accepted, received, hist>>
    /\ Observe

\* head_.store(next_head, release);
try_emplace_publish ==
    /\ p_pc = "publish"
    /\ head_' = p_next_head
    /\ p_pc' = "count"
    /\ UNCHANGED <<Size, monitor, tail_, buffer_, push_count_, pop_count_,
                   failed_push_count_, p_variant, p_item, p_current_head,
                   p_next_head, p_ret, consumer_locals, driver, emplace_calls,
                   pop_calls, accepted, received, hist>>
    /\ Observe

\* push_count_.fetch_add(1, relaxed); return true;
try_emplace_count ==
    /\ p_pc = "count"
    /\ push_count_' = push_count_ + 1
    /\ p_pc' = "idle"
    /\ p_ret' = TRUE
    /\ p_variant' = "none"
    /\ p_item' = DefaultT
    /\ p_current_head' = 0
    /\ p_next_head' = 0
    /\ accepted' = Append(accepted, p_item)
    /\ Log([op |-> "emplace", arg |-> p_item, ret |-> TRUE, out |-> DefaultT])
    /\ UNCHANGED <<Size, monitor, m_seen, head_, tail_, buffer_, pop_count_, failed_push_count_,
                   consumer_locals, driver, emplace_calls, pop_calls, received>>

\* ---------------------------------------------------------------- consumer

\* try_pop is entered: current_tail = tail_.load(relaxed).
try_pop_begin ==
    /\ c_pc = "idle"
    /\ c_pc' = "check"
    /\ c_current_tail' = tail_
    /\ UNCHANGED <<Size, monitor, m_seen, ring, producer_locals, c_item, c_ret, driver,
                   accepted, received, hist>>

\* try_pop_check counting a pop that found the ring empty.
try_pop_check_counts_attempt ==
    /\ c_pc = "check"
    /\ IF ring_empty(c_current_tail, head_)
       THEN /\ c_pc' = "idle"
            /\ c_ret' = FALSE
            /\ c_current_tail' = 0
            /\ pop_count_' = pop_count_ + 1
            /\ Log([op |-> "pop", arg |-> DefaultT, ret |-> FALSE, out |-> c_item])
       ELSE /\ c_pc' = "read"
            /\ UNCHANGED <<c_ret, c_current_tail, hist, pop_count_>>
    /\ UNCHANGED <<Size, monitor, m_seen, head_, tail_, buffer_, push_count_,
                   failed_push_count_, producer_locals, c_item, driver,
                   emplace_calls, pop_calls, accepted, received>>

\* try_pop_check moving the slot out before it knows the ring is not empty.
try_pop_check_reads_first ==
    /\ c_pc = "check"
    /\ c_item' = buffer_[c_current_tail]
    /\ IF ring_empty(c_current_tail, head_)
       THEN /\ c_pc' = "idle"
            /\ c_ret' = FALSE
            /\ c_current_tail' = 0
            /\ Log([op |-> "pop", arg |-> DefaultT, ret |-> FALSE, out |-> c_item'])
       ELSE /\ c_pc' = "read"
            /\ UNCHANGED <<c_ret, c_current_tail, hist>>
    /\ UNCHANGED <<Size, monitor, m_seen, ring, producer_locals, driver, emplace_calls,
                   pop_calls, accepted, received>>

\* if (current_tail == head_.load(acquire)) return false;
try_pop_check ==
    /\ c_pc = "check"
    /\ IF ring_empty(c_current_tail, head_)
       THEN /\ c_pc' = "idle"
            /\ c_ret' = FALSE
            /\ c_current_tail' = 0
            /\ Log([op |-> "pop", arg |-> DefaultT, ret |-> FALSE, out |-> c_item])
       ELSE /\ c_pc' = "read"
            /\ UNCHANGED <<c_ret, c_current_tail, hist>>
    /\ UNCHANGED <<Size, monitor, m_seen, ring, producer_locals, c_item, driver, emplace_calls,
                   pop_calls, accepted, received>>

\* try_pop_read taking the slot after current_tail.
try_pop_read_next_slot ==
    /\ c_pc = "read"
    /\ c_item' = buffer_[BitAnd(c_current_tail + 1, Size - 1)]
    /\ c_pc' = "publish"
    /\ UNCHANGED <<Size, monitor, m_seen, ring, producer_locals, c_current_tail, c_ret, driver,
                   emplace_calls, pop_calls, accepted, received, hist>>

\* item = std::move(buffer_[current_tail]);
try_pop_read ==
    /\ c_pc = "read"
    /\ c_item' = buffer_[c_current_tail]
    /\ c_pc' = "publish"
    /\ UNCHANGED <<Size, monitor, m_seen, ring, producer_locals, c_current_tail, c_ret, driver,
                   emplace_calls, pop_calls, accepted, received, hist>>

\* try_pop_publish storing next_tail into head_ instead of tail_.
try_pop_publish_into_head ==
    /\ c_pc = "publish"
    /\ head_' = next_index(c_current_tail)
    /\ c_pc' = "count"
    /\ UNCHANGED <<Size, monitor, tail_, buffer_, push_count_, pop_count_,
                   failed_push_count_, producer_locals, c_current_tail, c_item,
                   c_ret, driver, emplace_calls, pop_calls, accepted, received,
                   hist>>
    /\ Observe

\* try_pop_publish storing current_tail again instead of next_tail.
try_pop_publish_same_tail ==
    /\ c_pc = "publish"
    /\ tail_' = c_current_tail
    /\ c_pc' = "count"
    /\ UNCHANGED <<Size, monitor, head_, buffer_, push_count_, pop_count_,
                   failed_push_count_, producer_locals, c_current_tail, c_item,
                   c_ret, driver, emplace_calls, pop_calls, accepted, received,
                   hist>>
    /\ Observe

\* next_tail = next_index(current_tail); tail_.store(next_tail, release);
try_pop_publish ==
    /\ c_pc = "publish"
    /\ tail_' = next_index(c_current_tail)
    /\ c_pc' = "count"
    /\ UNCHANGED <<Size, monitor, head_, buffer_, push_count_, pop_count_,
                   failed_push_count_, producer_locals, c_current_tail, c_item,
                   c_ret, driver, emplace_calls, pop_calls, accepted, received,
                   hist>>
    /\ Observe

\* try_pop_count adding to push_count_ instead of pop_count_.
try_pop_count_wrong_counter ==
    /\ c_pc = "count"
    /\ push_count_' = push_count_ + 1
    /\ c_pc' = "idle"
    /\ c_ret' = TRUE
    /\ c_current_tail' = 0
    /\ received' = Append(received, c_item)
    /\ Log([op |-> "pop", arg |-> DefaultT, ret |-> TRUE, out |-> c_item])
    /\ UNCHANGED <<Size, monitor, m_seen, head_, tail_, buffer_, pop_count_, failed_push_count_,
                   producer_locals, c_item, driver, emplace_calls, pop_calls,
                   accepted>>

\* pop_count_.fetch_add(1, relaxed); return true;
try_pop_count ==
    /\ c_pc = "count"
    /\ pop_count_' = pop_count_ + 1
    /\ c_pc' = "idle"
    /\ c_ret' = TRUE
    /\ c_current_tail' = 0
    /\ received' = Append(received, c_item)
    /\ Log([op |-> "pop", arg |-> DefaultT, ret |-> TRUE, out |-> c_item])
    /\ UNCHANGED <<Size, monitor, m_seen, head_, tail_, buffer_, push_count_, failed_push_count_,
                   producer_locals, c_item, driver, emplace_calls, pop_calls,
                   accepted>>

\* ------------------------------------------------- two threads, any calls

\* The producer thread calls either overload with any item.
ProducerCall ==
    /\ emplace_calls < MaxEmplaceCalls
    /\ \E variant \in Variants, item \in Values : try_emplace_begin(variant, item)
    /\ emplace_calls' = emplace_calls + 1
    /\ UNCHANGED pop_calls

\* The consumer thread calls try_pop.
ConsumerCall ==
    /\ pop_calls < MaxPopCalls
    /\ try_pop_begin
    /\ pop_calls' = pop_calls + 1
    /\ UNCHANGED emplace_calls

Next ==
    \/ ProducerCall
    \/ try_emplace_check
    \/ try_emplace_fail
    \/ try_emplace_write
    \/ try_emplace_publish
    \/ try_emplace_count
    \/ ConsumerCall
    \/ try_pop_check
    \/ try_pop_read
    \/ try_pop_publish
    \/ try_pop_count

Spec == Init /\ [][Next]_vars

\* ------------------------------------------- one thread, calls one by one

InitSingle == Construct("single")

\* The driver numbers its items 1, 2, ...: it offers the number after the
\* last one the ring took, so a refused item is offered again.
SingleEmplace ==
    /\ c_pc = "idle"
    /\ Len(hist) < MaxOps
    /\ \E variant \in Variants : try_emplace_begin(variant, Len(accepted) + 1)
    /\ UNCHANGED <<emplace_calls, pop_calls>>

SinglePop ==
    /\ p_pc = "idle"
    /\ Len(hist) < MaxOps
    /\ try_pop_begin
    /\ UNCHANGED <<emplace_calls, pop_calls>>

NextSingle ==
    \/ SingleEmplace
    \/ try_emplace_check
    \/ try_emplace_fail
    \/ try_emplace_write
    \/ try_emplace_publish
    \/ try_emplace_count
    \/ SinglePop
    \/ try_pop_check
    \/ try_pop_read
    \/ try_pop_publish
    \/ try_pop_count

SpecSingle == InitSingle /\ [][NextSingle]_vars

\* -------------------------------------- stress: M numbered items, retrying

InitStress == Construct("stress")

\* The producer pushes 1..M, offering an item again when it was refused.  A
\* refused call changes nothing but failed_push_count_; once that counter
\* has reached MaxStressFailed the producer calls again only when the ring
\* has room (tail_ only moves away from a full ring, so that call succeeds).
StressEmplace ==
    /\ Len(accepted) < MaxStressItems
    /\ \/ failed_push_count_ < MaxStressFailed
       \/ ~ring_full(next_index(head_), tail_)
    /\ try_emplace_begin("copy", Len(accepted) + 1)
    /\ UNCHANGED <<emplace_calls, pop_calls>>

\* The consumer calls try_pop until it has received M items.
StressPop ==
    /\ Len(received) < MaxStressItems
    /\ try_pop_begin
    /\ UNCHANGED <<emplace_calls, pop_calls>>

ProducerStress ==
    \/ StressEmplace
    \/ try_emplace_check
    \/ try_emplace_fail
    \/ try_emplace_write
    \/ try_emplace_publish
    \/ try_emplace_count

ConsumerStress ==
    \/ StressPop
    \/ try_pop_check
    \/ try_pop_read
    \/ try_pop_publish
    \/ try_pop_count

NextStress == ProducerStress \/ ConsumerStress

\* Both threads keep being scheduled.
SpecStress ==
    /\ InitStress
    /\ [][NextStress]_vars
    /\ WF_vars(ProducerStress)
    /\ WF_vars(ConsumerStress)

\* ------------------------------------ status queries on a monitoring thread

\* Items the producer of SpecMonitor offers and try_pop calls its consumer
\* makes.
MaxMonitorEmplaceCalls == 2

MaxMonitorPopCalls == 2

\* Status queries the monitoring thread of SpecMonitor makes.
MaxStatusCalls == 1

Queries == {"empty", "full", "size"}

\* empty(), full() or size() is entered.  full() and size() load head_ in
\* one statement and tail_ in the next; empty() loads both as operands of
\* one ==, which may be evaluated in either order.
status_begin(query) ==
    /\ m_pc = "idle"
    /\ m_query' = query
    /\ m_pc' \in (IF query = "empty" THEN {"head_first", "tail_first"}
                                     ELSE {"head_first"})
    /\ m_ops' = IF p_pc = "idle" /\ c_pc = "idle"
                THEN emplace_calls + pop_calls ELSE -1
    /\ m_seen' = {Occupancy}
    /\ UNCHANGED <<Size, ring, producer_locals, consumer_locals, driver,
                   emplace_calls, pop_calls, accepted, received, hist,
                   m_head, m_tail, m_ret, m_size, m_at_head, m_at_tail>>

\* head_.load(acquire)
status_load_head ==
    /\ m_pc \in {"head_first", "head_second"}
    /\ m_head' = head_
    /\ m_pc' = IF m_pc = "head_first" THEN "tail_second" ELSE "return"
    /\ m_at_head' = <<PublishedCount, ConsumedCount>>
    /\ UNCHANGED <<Size, ring, producer_locals, consumer_locals, driver,
                   emplace_calls, pop_calls, accepted, received, hist,
                   m_query, m_tail, m_ret, m_size, status_calls, m_ops,
                   m_at_tail, m_seen>>

\* tail_.load(acquire)
status_load_tail ==
    /\ m_pc \in {"tail_first", "tail_second"}
    /\ m_tail' = tail_
    /\ m_pc' = IF m_pc = "tail_first" THEN "head_second" ELSE "return"
    /\ m_at_tail' = <<PublishedCount, ConsumedCount>>
    /\ UNCHANGED <<Size, ring, producer_locals, consumer_locals, driver,
                   emplace_calls, pop_calls, accepted, received, hist,
                   m_query, m_head, m_ret, m_size, status_calls, m_ops,
                   m_at_head, m_seen>>

\* The query computes its value from the two loaded indices and returns it.
status_return ==
    /\ m_pc = "return"
    /\ m_ret' = CASE m_query = "empty" -> empty_value(m_head, m_tail)
                  [] m_query = "full" -> full_value(m_head, m_tail)
                  [] OTHER -> m_ret
    /\ m_size' = IF m_query = "size" THEN size_value(m_head, m_tail) ELSE m_size
    /\ m_pc' = "idle"
    /\ m_head' = 0
    /\ m_tail' = 0
    /\ UNCHANGED <<Size, ring, producer_locals, consumer_locals, driver,
                   emplace_calls, pop_calls, accepted, received, hist,
                   m_query, status_calls, m_ops, m_at_head, m_at_tail,
                   m_seen>>

InitMonitor == Construct("monitor")

\* The producer offers numbered items, an item again when it was refused.
MonitorEmplace ==
    /\ emplace_calls < MaxMonitorEmplaceCalls
    /\ try_emplace_begin("copy", Len(accepted) + 1)
    /\ emplace_calls' = emplace_calls + 1
    /\ UNCHANGED pop_calls

MonitorPop ==
    /\ pop_calls < MaxMonitorPopCalls
    /\ try_pop_begin
    /\ pop_calls' = pop_calls + 1
    /\ UNCHANGED emplace_calls

\* The monitoring thread calls any of the three queries.
StatusCall ==
    /\ status_calls < MaxStatusCalls
    /\ \E query \in Queries : status_begin(query)
    /\ status_calls' = status_calls + 1

NextMonitor ==
    \/ MonitorEmplace
    \/ try_emplace_check
    \/ try_emplace_fail
    \/ try_emplace_write
    \/ try_emplace_publish
    \/ try_emplace_count
    \/ MonitorPop
    \/ try_pop_check
    \/ try_pop_read
    \/ try_pop_publish
    \/ try_pop_count
    \/ StatusCall
    \/ status_load_head
    \/ status_load_tail
    \/ status_return

SpecMonitor == InitMonitor /\ [][NextMonitor]_vars

\* --------------------------------------------- instantiation with any Size

\* SPSCRing<T, Size> is written with any Size; nothing exists before the
\* template is instantiated.
InitConfig ==
    /\ Size \in 0..MaxSize
    /\ driver = "config"
    /\ head_ = 0
    /\ tail_ = 0
    /\ buffer_ = <<>>
    /\ push_count_ = 0
    /\ pop_count_ = 0
    /\ failed_push_count_ = 0
    /\ p_pc = "idle"
    /\ p_variant = "none"
    /\ p_item = DefaultT
    /\ p_current_head = 0
    /\ p_next_head = 0
    /\ p_ret = FALSE
    /\ c_pc = "idle"
    /\ c_current_tail = 0
    /\ c_item = DefaultT
    /\ c_ret = FALSE
    /\ emplace_calls = 0
    /\ pop_calls = 0
    /\ accepted = <<>>
    /\ received = <<>>
    /\ hist = <<>>
    /\ m_pc = "idle"
    /\ m_query = "none"
    /\ m_head = 0
    /\ m_tail = 0
    /\ m_ret = FALSE
    /\ m_size = 0
    /\ status_calls = 0
    /\ m_ops = 0
    /\ m_at_head = <<0, 0>>
    /\ m_at_tail = <<0, 0>>
    /\ m_seen = {}

\* The class template is instantiated: when both static_asserts hold the
\* constructor runs and the single-threaded driver gets the ring, otherwise
\* the build fails and there is no ring.
Instantiate ==
    /\ driver = "config"
    /\ IF StaticAssertPowerOfTwo(Size) /\ StaticAssertAtLeastTwo(Size)
       THEN /\ driver' = "single"
            /\ buffer_' = [i \in 0..(Size - 1) |-> DefaultT]
       ELSE /\ driver' = "rejected"
            /\ buffer_' = buffer_
    /\ head_' = 0
    /\ tail_' = 0
    /\ push_count_' = 0
    /\ pop_count_' = 0
    /\ failed_push_count_' = 0
    /\ UNCHANGED <<Size, monitor, m_seen, producer_locals, consumer_locals,
                   emplace_calls, pop_calls, accepted, received, hist>>

\* Only a program that was built calls the ring.
ConfigEmplace == driver = "single" /\ SingleEmplace

ConfigPop == driver = "single" /\ SinglePop

NextConfig ==
    \/ Instantiate
    \/ ConfigEmplace
    \/ try_emplace_check
    \/ try_emplace_fail
    \/ try_emplace_write
    \/ try_emplace_publish
    \/ try_emplace_count
    \/ ConfigPop
    \/ try_pop_check
    \/ try_pop_read
    \/ try_pop_publish
    \/ try_pop_count

SpecConfig == InitConfig /\ [][NextConfig]_vars

\* ===================================================================== claims

IsPrefix(s, t) == Len(s) <= Len(t) /\ \A i \in 1..Len(s) : s[i] = t[i]

\* Items of the successful try_emplace calls: those that returned true, and
\* the one that has stored head_ and is about to return true.
AcceptedSoFar == accepted \o (IF p_pc = "count" THEN <<p_item>> ELSE <<>>)

\* Items try_pop gave: those of calls that returned true, and the one a
\* call has read into the caller's item and is about to return with.
ReceivedSoFar ==
    received \o (IF c_pc \in {"publish", "count"} THEN <<c_item>> ELSE <<>>)

\* The slot that holds the k-th published and not yet consumed item.
UnreadSlot(k) == (tail_ + k - 1) % Size

\* C1 (FIFO order): under every interleaving of the producer's and the
\* consumer's steps, the items try_pop returned are a prefix of the items
\* the successful try_emplace calls were given (same order, none twice,
\* none skipped), and every item accepted and not yet popped waits in the
\* ring, in order, from tail_ on (none lost).
C1_FifoOrder ==
    /\ IsPrefix(ReceivedSoFar, AcceptedSoFar)
    /\ \A k \in 1..Occupancy :
          buffer_[UnreadSlot(k)] = AcceptedSoFar[ConsumedCount + k]

\* The ring of size 2 has refused an item and wrapped around; the consumer
\* has read the fourth item before the try_emplace that published it returned.
C1_Witness ==
    /\ Size = 2
    /\ received = <<1, 2, 1>>
    /\ failed_push_count_ >= 1
    /\ p_pc = "count"
    /\ c_pc = "publish"
    /\ c_item = 2

\* ------------------------------------------------ single-threaded scenarios

\* The operations of the finished calls, in call order.
HistOps == [i \in 1..Len(hist) |-> hist[i].op]

\* The finished calls and the call in progress, if any.
OpsStarted ==
    HistOps \o (IF p_pc # "idle" THEN <<"emplace">> ELSE <<>>)
            \o (IF c_pc # "idle" THEN <<"pop">> ELSE <<>>)

\* The first k finished calls are all try_emplace calls.
AllEmplace(k) == \A i \in 1..k : hist[i].op = "emplace"

\* C2 (capacity boundary): on a fresh ring of size N, while no try_pop has
\* been called, the i-th try_emplace returns true exactly when i <= N-1 (the
\* N-th returns false); after a try_pop on the full ring, which succeeds,
\* the next try_emplace returns true and the one after it returns false.
C2_CapacityBoundary ==
    /\ \A i \in 1..Len(hist) :
          AllEmplace(i) => (hist[i].ret <=> i <= Size - 1)
    /\ \A m \in Size..Len(hist) :
          (AllEmplace(m) /\ Len(hist) > m /\ hist[m + 1].op = "pop") =>
              /\ hist[m + 1].ret
              /\ (Len(hist) >= m + 2 /\ hist[m + 2].op = "emplace") =>
                    hist[m + 2].ret
              /\ (/\ Len(hist) >= m + 3
                  /\ hist[m + 2].op = "emplace"
                  /\ hist[m + 3].op = "emplace") => ~hist[m + 3].ret

\* Size 8: eight pushes (seven taken, the eighth refused), one pop, and two
\* more pushes (one taken, one refused) have been made.
C2_Witness ==
    /\ Size = 8
    /\ Len(hist) = 11
    /\ AllEmplace(8)
    /\ hist[9].op = "pop"
    /\ hist[10].op = "emplace" /\ hist[10].ret
    /\ hist[11].op = "emplace" /\ ~hist[11].ret
    /\ push_count_ = 8
    /\ failed_push_count_ = 2

\* The scenario of C7, with A = 1 and B = 2.
Scenario7 == <<"emplace", "emplace", "pop", "pop">>

Expected7 ==
    << [op |-> "emplace", arg |-> 1, ret |-> TRUE, out |-> DefaultT],
       [op |-> "emplace", arg |-> 2, ret |-> FALSE, out |-> DefaultT],
       [op |-> "pop", arg |-> DefaultT, ret |-> TRUE, out |-> 1],
       [op |-> "pop", arg |-> DefaultT, ret |-> FALSE, out |-> 1] >>

\* C7 (minimum size round trip): on a fresh ring of Size 2, try_emplace(A)
\* returns true, try_emplace(B) returns false, try_pop returns true with
\* item = A and a second try_pop returns false (item still A); B is in no
\* slot and in no caller's item at any point of the scenario.
C7_MinimumSizeRoundTrip ==
    (Size = 2 /\ IsPrefix(OpsStarted, Scenario7)) =>
        /\ capacity = 1
        /\ MASK = 1
        /\ \A i \in 1..Len(hist) : hist[i] = Expected7[i]
        /\ \A i \in 0..(Size - 1) : buffer_[i] # 2
        /\ c_item # 2

\* The four calls of the scenario have been made on the ring of Size 2.
C7_Witness ==
    /\ Size = 2
    /\ Len(hist) = 4
    /\ IsPrefix(HistOps, Scenario7)
    /\ p_pc = "idle"
    /\ c_pc = "idle"

\* The scenario of C8.
Scenario8 ==
    <<"emplace", "emplace", "emplace", "emplace", "pop", "emplace",
      "pop", "pop", "pop", "pop">>

Expected8 ==
    << [op |-> "emplace", arg |-> 1, ret |-> TRUE, out |-> DefaultT],
       [op |-> "emplace", arg |-> 2, ret |-> TRUE, out |-> DefaultT],
       [op |-> "emplace", arg |-> 3, ret |-> TRUE, out |-> DefaultT],
       [op |-> "emplace", arg |-> 4, ret |-> FALSE, out |-> DefaultT],
       [op |-> "pop", arg |-> DefaultT, ret |-> TRUE, out |-> 1],
       [op |-> "emplace", arg |-> 4, ret |-> TRUE, out |-> DefaultT],
       [op |-> "pop", arg |-> DefaultT, ret |-> TRUE, out |-> 2],
       [op |-> "pop", arg |-> DefaultT, ret |-> TRUE, out |-> 3],
       [op |-> "pop", arg |-> DefaultT, ret |-> TRUE, out |-> 4],
       [op |-> "pop", arg |-> DefaultT, ret |-> FALSE, out |-> 4] >>

\* C8 (wrap-around, Size 4): try_emplace(1), (2), (3) return true,
\* try_emplace(4) returns false, try_pop gives 1, try_emplace(4) returns
\* true, having written slot 3 and wrapped head_ to 0, the next three
\* try_pop calls give 2, 3, 4 and a last try_pop returns false.
C8_WrapAround ==
    (Size = 4 /\ IsPrefix(OpsStarted, Scenario8)) =>
        /\ \A i \in 1..Len(hist) : hist[i] = Expected8[i]
        /\ Len(hist) >= 6 => (buffer_[3] = 4 /\ head_ = 0)
        /\ Len(hist) = 10 => (head_ = tail_ /\ tail_ = 0)

\* The ten calls of the scenario have been made on the ring of Size 4.
C8_Witness ==
    /\ Size = 4
    /\ Len(hist) = 10
    /\ IsPrefix(HistOps, Scenario8)
    /\ p_pc = "idle"
    /\ c_pc = "idle"

\* ------------------------------------------------------- empty and full

\* The consumer takes the step of try_pop that loads head_ and compares.
PopCheckStep == c_pc = "check" /\ c_pc' # "check"

\* C3 (empty boundary): a try_pop that finds head_ = tail_ (as it does on a
\* fresh ring and whenever as many pushes as pops have succeeded and no
\* try_emplace is running) returns false, and neither its load of tail_ nor
\* its check changes head_, tail_, a slot, a counter or the caller's item.
C3_EmptyPop ==
    [][ /\ (c_pc = "idle" /\ c_pc' = "check") =>
              (UNCHANGED ring /\ c_item' = c_item)
        /\ (PopCheckStep /\ (\/ head_ = tail_
                              \/ (p_pc = "idle" /\ push_count_ = pop_count_))) =>
              /\ c_pc' = "idle"
              /\ c_ret' = FALSE
              /\ UNCHANGED ring
              /\ c_item' = c_item
              /\ UNCHANGED <<accepted, received>> ]_vars

\* After two pushes and two pops have succeeded, a try_pop has returned
\* false and left the last popped item in the caller's item.
C3_Witness ==
    /\ p_pc = "idle"
    /\ c_pc = "idle"
    /\ c_ret = FALSE
    /\ push_count_ = 2
    /\ pop_count_ = 2
    /\ pop_calls = 3
    /\ head_ = tail_
    /\ c_item = 2
    /\ received = <<1, 2>>

\* The producer takes the step of try_emplace that loads tail_ and compares.
EmplaceCheckStep == p_pc = "check" /\ p_pc' # "check"

\* The producer takes the step that counts the failed push and returns.
EmplaceFailStep == p_pc = "fail" /\ p_pc' # "fail"

\* C4 (full on push): a try_emplace, of either overload, that finds
\* next_index(head_) = tail_ goes on to return false: it adds exactly 1 to
\* failed_push_count_, leaves head_, tail_, every slot, push_count_ and
\* pop_count_ as they were, and is over (no second attempt, no further call).
C4_FullPush ==
    [][ /\ (EmplaceCheckStep /\ next_index(head_) = tail_) =>
              /\ p_pc' = "fail"
              /\ p_variant \in Variants
              /\ UNCHANGED ring
        /\ EmplaceFailStep =>
              /\ p_pc' = "idle"
              /\ p_ret' = FALSE
              /\ failed_push_count_' = failed_push_count_ + 1
              /\ UNCHANGED <<head_, tail_, buffer_, push_count_, pop_count_>>
              /\ UNCHANGED <<emplace_calls, accepted, received>> ]_vars

\* The full ring of Size 4 has refused one push already and the move
\* overload has just found it full again.
C4_Witness ==
    /\ Size = 4
    /\ push_count_ = 3
    /\ pop_count_ = 0
    /\ failed_push_count_ = 1
    /\ p_ret = FALSE
    /\ p_pc = "fail"
    /\ p_variant = "move"

\* C5 (counter consistency): once the try_emplace calls made have returned,
\* total_pops() <= total_pushes() and total_pushes() + failed_pushes() is
\* the number of try_emplace calls made, whatever the consumer is doing.
C5_CounterConsistency ==
    p_pc = "idle" =>
        /\ total_pops <= total_pushes
        /\ total_pushes + failed_pushes = emplace_calls

\* Both threads are between calls after pushes taken, pushes refused and pops.
C5_Witness ==
    /\ p_pc = "idle"
    /\ c_pc = "idle"
    /\ emplace_calls = 5
    /\ total_pushes = 3
    /\ failed_pushes = 2
    /\ total_pops = 2

\* --------------------------------------------------------------- occupancy

\* size(): (head - tail) & MASK in size_t arithmetic; the difference wraps
\* modulo a power of two that Size divides.
size == size_value(head_, tail_)

\* C9 (usable capacity N-1): capacity() is Size - 1 in every state, and the
\* number of items published and not yet popped is (head_ - tail_) mod Size
\* and never exceeds Size - 1: head_ never advances onto tail_, so
\* head_ = tail_ only when nothing is waiting.
C9_UsableCapacity ==
    /\ Size \in Sizes
    /\ capacity = Size - 1
    /\ Occupancy >= 0
    /\ Occupancy <= capacity
    /\ Occupancy = size
    /\ (head_ = tail_) <=> (Occupancy = 0)

\* The ring of Size 4 holds three unpopped items after wrapping around, and
\* the producer has found it full.
C9_Witness ==
    /\ Size = 4
    /\ Occupancy = 3
    /\ head_ < tail_
    /\ p_pc = "fail"

\* ---------------------------------------------------------- slot ownership

\* try_emplace is between its full check and its store of head_.
ProducerOwnsSlot == p_pc \in {"write", "publish"}

\* try_pop is between its empty check and its store of tail_.
ConsumerOwnsSlot == c_pc \in {"read", "publish"}

\* C10 (slot ownership): the slot try_emplace writes between its full check
\* and its head store is never the slot try_pop reads between its empty
\* check and its tail store; and the slot try_pop reads has been published
\* by a head store and still holds the item that try_emplace was given.
C10_SlotOwnership ==
    /\ (ProducerOwnsSlot /\ ConsumerOwnsSlot) => p_current_head # c_current_tail
    /\ ProducerOwnsSlot => p_current_head = head_
    /\ ConsumerOwnsSlot =>
          /\ c_current_tail = tail_
          /\ PublishedCount > ConsumedCount
          /\ buffer_[c_current_tail] = AcceptedSoFar[ConsumedCount + 1]

\* On the ring of Size 4, after head_ has wrapped around, the producer is
\* about to write slot 0 while the consumer is about to read slot 2.
C10_Witness ==
    /\ Size = 4
    /\ p_pc = "write"
    /\ c_pc = "read"
    /\ p_current_head = 0
    /\ c_current_tail = 2
    /\ push_count_ = 4
    /\ pop_count_ = 2

\* ------------------------------------------------------------------ stress

\* Both loops of the stress run have ended.
StressStopped ==
    /\ p_pc = "idle"
    /\ c_pc = "idle"
    /\ Len(accepted) = MaxStressItems
    /\ Len(received) = MaxStressItems

\* C6 (concurrent stress): with both threads scheduled fairly the run of
\* the retrying producer of items 1..M and the retrying consumer ends, and
\* when it has ended total_pushes() = total_pops() = M, the items received
\* are 1, 2, ..., M in this order and the ring is empty (head_ = tail_).
C6_StressTerminates ==
    /\ <>StressStopped
    /\ [](StressStopped =>
            /\ total_pushes = MaxStressItems
            /\ total_pops = MaxStressItems
            /\ received = [i \in 1..MaxStressItems |-> i]
            /\ head_ = tail_)

\* The run on the ring of Size 2 has ended after refused pushes.
C6_Witness ==
    /\ StressStopped
    /\ Size = 2
    /\ failed_push_count_ = MaxStressFailed
    /\ Len(received) = MaxStressItems

\* ------------------------------------------------------- single writers

\* A step of the producer thread; a step of the consumer thread.
ProducerStep == p_pc' # p_pc

ConsumerStep == c_pc' # c_pc

\* C11 (single writer per position counter): no step of try_emplace, of
\* either overload, taken or refused, changes tail_ or pop_count_; no step
\* of try_pop changes head_, push_count_ or failed_push_count_; head_
\* changes only in try_emplace's head store and tail_ only in try_pop's
\* tail store.
C11_SingleWriter ==
    [][ /\ ProducerStep => UNCHANGED <<tail_, pop_count_>>
        /\ ConsumerStep => UNCHANGED <<head_, push_count_, failed_push_count_>>
        /\ head_' # head_ => (p_pc = "publish" /\ p_pc' = "count")
        /\ tail_' # tail_ => (c_pc = "publish" /\ c_pc' = "count") ]_vars

\* A push of the move overload has stored head_ after a refused push, a
\* taken push and a pop; a try_pop that found the ring empty has returned.
C11_Witness ==
    /\ p_pc = "count"
    /\ p_variant = "move"
    /\ push_count_ = 1
    /\ failed_push_count_ = 1
    /\ pop_count_ = 1
    /\ pop_calls = 2
    /\ c_pc = "idle"
    /\ c_ret = FALSE

\* -------------------------------------------------------------- wait-freedom

\* How many of its own steps a call has taken when it stands at pc.
StepsTaken(pc) ==
    CASE pc = "idle" -> 0
      [] pc = "check" -> 1
      [] pc = "fail" -> 2
      [] pc = "write" -> 2
      [] pc = "read" -> 2
      [] pc = "publish" -> 3
      [] pc = "count" -> 4

\* The most steps of its own a call takes: its load of its own index, its
\* load of the other index, its slot access, its index store and its counter
\* increment.
MaxOwnSteps == StepsTaken("count") + 1

\* The steps inside a try_emplace call; the steps inside a try_pop call.
EmplaceBody ==
    \/ try_emplace_check
    \/ try_emplace_fail
    \/ try_emplace_write
    \/ try_emplace_publish
    \/ try_emplace_count

PopBody ==
    \/ try_pop_check
    \/ try_pop_read
    \/ try_pop_publish
    \/ try_pop_count

\* C12 (wait-freedom): a call that is running can always take its next step,
\* whatever state the other thread is in, and each of its steps either ends
\* the call or is one step further into it, so that a call is over after at
\* most five steps of its own: it never waits for the other thread and
\* never goes back to repeat a step.
C12_WaitFree ==
    /\ [](p_pc # "idle" => ENABLED EmplaceBody)
    /\ [](c_pc # "idle" => ENABLED PopBody)
    /\ [][ /\ ProducerStep =>
                \/ (p_pc' = "idle" /\ StepsTaken(p_pc) + 1 <= MaxOwnSteps)
                \/ (p_pc' # "idle" /\ StepsTaken(p_pc') = StepsTaken(p_pc) + 1)
           /\ ConsumerStep =>
                \/ (c_pc' = "idle" /\ StepsTaken(c_pc) + 1 <= MaxOwnSteps)
                \/ (c_pc' # "idle" /\ StepsTaken(c_pc') = StepsTaken(c_pc) + 1)
           /\ ~ProducerStep => UNCHANGED producer_locals
           /\ ~ConsumerStep => UNCHANGED consumer_locals ]_vars

\* A third try_emplace in a row has found the ring of Size 2 full and is about
\* to return, while the consumer has made no call at all.
C12_Witness ==
    /\ Size = 2
    /\ p_pc = "fail"
    /\ push_count_ = 1
    /\ failed_push_count_ = 2
    /\ pop_calls = 0
    /\ c_pc = "idle"

\* -------------------------------------------------------------- index range

\* The slot indices of buffer_.
SlotIndices == 0..(Size - 1)

\* C14 (index range): head_ and tail_ are always in 0..Size-1; they start at
\* 0 and each head store (tail store) moves head_ (tail_) on by one with
\* Size-1 wrapping to 0, so head_ is the number of head stores modulo Size
\* and tail_ the number of tail stores modulo Size; every index a call uses
\* for a slot access or holds in next_head is in range too.
C14_IndexRange ==
    /\ head_ \in SlotIndices
    /\ tail_ \in SlotIndices
    /\ head_ = PublishedCount % Size
    /\ tail_ = ConsumedCount % Size
    /\ p_current_head \in SlotIndices
    /\ p_next_head \in SlotIndices
    /\ c_current_tail \in SlotIndices
    /\ p_pc \in {"check", "fail", "write", "publish"} =>
          (p_current_head = head_ /\ p_next_head = (head_ + 1) % Size)
    /\ c_pc \in {"check", "read", "publish"} => c_current_tail = tail_

\* On the ring of Size 4 head_ has wrapped from 3 to 0 and tail_ stands at 3.
C14_Witness ==
    /\ Size = 4
    /\ PublishedCount = 4
    /\ head_ = 0
    /\ ConsumedCount = 3
    /\ tail_ = 3
    /\ c_pc = "read"
    /\ c_current_tail = 3

\* -------------------------------------------------------- publication order

\* The items given to the calls that returned true, and the item of the
\* call that is running.
PendingItems == accepted \o (IF p_pc # "idle" THEN <<p_item>> ELSE <<>>)

\* The index of the k-th slot from tail_ on, as the code computes indices.
SlotFromTail(k) == BitAnd(tail_ + k - 1, MASK)

\* The slots at the indices tail_ .. head_-1 (mod Size): those a consumer
\* that loads head_ now is allowed to read.
PublishedSlots == {SlotFromTail(k) : k \in 1..size}

\* C15 (publication order): the slot write precedes the head store, so
\* whenever head_ # tail_ each slot at an index in tail_ .. head_-1 holds the
\* item given to the try_emplace that published it, and no step of either
\* thread modifies a slot while its index is in that range (a slot is
\* written again only after the tail store of the try_pop that read it).
C15_PublicationOrder ==
    /\ [](\A k \in 1..size :
             /\ ConsumedCount + k <= Len(PendingItems)
             /\ buffer_[SlotFromTail(k)] = PendingItems[ConsumedCount + k])
    /\ [][\A i \in PublishedSlots : buffer_'[i] = buffer_[i]]_vars

\* Three items are published in the ring of Size 4 across the wrap-around,
\* the fifth push is about to return and the consumer is about to read.
C15_Witness ==
    /\ Size = 4
    /\ head_ = 1
    /\ tail_ = 2
    /\ PublishedSlots = {2, 3, 0}
    /\ p_pc = "count"
    /\ c_pc = "read"
    /\ buffer_[2] # buffer_[3]

\* ----------------------------------------------------------------- counters

\* A try_emplace returns true; returns false.  A try_pop returns true;
\* returns false.
EmplaceReturnsTrue == p_pc = "count" /\ p_pc' = "idle"

EmplaceReturnsFalse == p_pc = "fail" /\ p_pc' = "idle"

PopReturnsTrue == c_pc = "count" /\ c_pc' = "idle"

PopReturnsFalse == c_pc = "check" /\ c_pc' = "idle"

counters == <<push_count_, pop_count_, failed_push_count_>>

\* C17 (counters monotonic and exact): no step lowers a counter; push_count_
\* goes up, by exactly 1, in the steps in which a try_emplace returns true
\* and in no other; failed_push_count_ goes up by exactly 1 when a
\* try_emplace returns false, pop_count_ by exactly 1 when a try_pop returns
\* true, and in no other step; a try_pop that returns false changes no
\* counter.  The counters are thus the numbers of calls that so returned.
C17_CountersExact ==
    /\ [][ /\ push_count_' = push_count_ + (IF EmplaceReturnsTrue THEN 1 ELSE 0)
           /\ failed_push_count_' =
                 failed_push_count_ + (IF EmplaceReturnsFalse THEN 1 ELSE 0)
           /\ pop_count_' = pop_count_ + (IF PopReturnsTrue THEN 1 ELSE 0)
           /\ EmplaceReturnsTrue => p_ret'
           /\ EmplaceReturnsFalse => ~p_ret'
           /\ PopReturnsTrue => c_ret'
           /\ PopReturnsFalse => (~c_ret' /\ UNCHANGED counters) ]_vars
    /\ [](push_count_ = Len(accepted) /\ pop_count_ = Len(received))

\* Every kind of return has happened, and a try_pop has just returned false.
C17_Witness ==
    /\ push_count_ = 2
    /\ failed_push_count_ = 1
    /\ pop_count_ = 2
    /\ pop_calls = 4
    /\ c_pc = "idle"
    /\ c_ret = FALSE
    /\ p_pc = "idle"

\* ----------------------------------------------------------- linearizability

\* The sequential FIFO the ring stands for: the items whose head store is
\* done and whose tail store is not, oldest first.
AbsQueue == SubSeq(AcceptedSoFar, ConsumedCount + 1, Len(AcceptedSoFar))

\* The steps at which the calls take effect.
HeadStoreStep == p_pc = "publish" /\ p_pc' = "count"

TailStoreStep == c_pc = "publish" /\ c_pc' = "count"

FullLoadStep == p_pc = "check" /\ p_pc' = "fail"

EmptyLoadStep == c_pc = "check" /\ c_pc' = "idle"

C19_Original ==
    /\ total_pops <= total_pushes
    /\ total_pushes - total_pops <= capacity

\* try_emplace has stored head_ and not yet counted; try_pop likewise.
PushUncounted == IF p_pc = "count" THEN 1 ELSE 0

PopUncounted == IF c_pc = "count" THEN 1 ELSE 0

\* C19 as amended: in every reachable state total_pops() <= total_pushes() + 1
\* and total_pushes() - total_pops() <= capacity() + 1.  total_pops() exceeds
\* total_pushes() only while a try_emplace is between its head store and its
\* increment of push_count_, and the difference exceeds capacity() only
\* while a try_pop is between its tail store and its increment of
\* pop_count_: the difference is the number of items in the ring, less the
\* uncounted push, plus the uncounted pop.
C19_CountersMidOperation ==
    /\ total_pops <= total_pushes + 1
    /\ total_pushes - total_pops <= capacity + 1
    /\ total_pushes - total_pops = Occupancy - PushUncounted + PopUncounted
    /\ p_pc # "count" => total_pops <= total_pushes
    /\ c_pc # "count" => total_pushes - total_pops <= capacity

\* A try_pop has taken and counted the item of a try_emplace that has stored
\* head_ but not yet counted its push: one pop counted, no push counted.
C19_Witness ==
    /\ p_pc = "count"
    /\ c_pc = "idle"
    /\ c_ret = TRUE
    /\ total_pushes = 0
    /\ total_pops = 1

\* ------------------------------------------------------------ status queries

\* A step of the monitoring thread.
StatusStep == m_pc' # m_pc

\* A status query has returned and no other has begun.
QueryReturned == m_pc = "idle" /\ m_query # "none"

\* The query that returned began with no try_emplace and no try_pop in
\* progress, and none has begun since.
QueryAtRest ==
    /\ QueryReturned
    /\ p_pc = "idle"
    /\ c_pc = "idle"
    /\ m_ops = emplace_calls + pop_calls

\* C16 (status queries at quiescence): a query that runs with no try_emplace
\* and no try_pop in progress returns, for empty(), true iff head_ = tail_
\* iff size() is 0; for full(), true iff (head_ + 1) mod N = tail_ iff
\* size() is capacity(); for size(), the number of items pushed
\* successfully and not yet popped.  No step of a query changes the ring,
\* the other threads' variables or the items pushed and popped.
C16_QueriesAtRest ==
    /\ [](QueryAtRest =>
            /\ m_query = "empty" =>
                  /\ m_ret <=> head_ = tail_
                  /\ m_ret <=> size = 0
            /\ m_query = "full" =>
                  /\ m_ret <=> (head_ + 1) % Size = tail_
                  /\ m_ret <=> size = capacity
            /\ m_query = "size" =>
                  /\ m_size = size
                  /\ m_size = Len(accepted) - Len(received))
    /\ [][StatusStep =>
            UNCHANGED <<Size, ring, producer_locals, consumer_locals,
                        accepted, received>>]_vars

\* full() has returned true at rest on the ring of size 2 whose head_ has
\* wrapped to 0 behind tail_ = 1.
C16_Witness ==
    /\ QueryAtRest
    /\ Size = 2
    /\ head_ = 0
    /\ tail_ = 1
    /\ m_query = "full"
    /\ m_ret = TRUE

\* The value the query that returned would give on a ring holding n items.
WouldReturn(n) ==
    CASE m_query = "empty" -> m_ret <=> n = 0
      [] m_query = "full" -> m_ret <=> n = Size - 1
      [] m_query = "size" -> m_size = n
      [] OTHER -> FALSE

\* C20 as stated (status queries under concurrency): the value a query
\* returns is the value the query would give on some state the ring was in
\* between the start and the end of the call: size() returns a number of
\* items the ring held during the call, full() returns true only if it held
\* N-1 items at some instant of the call, empty() returns true only if it
\* held none at some instant of the call.
C20_Original == QueryReturned => \E n \in m_seen : WouldReturn(n)

\* Head stores between the query's two loads, and tail stores between them.
HeadStoresBetween ==
    IF m_at_head[1] >= m_at_tail[1] THEN m_at_head[1] - m_at_tail[1]
                                    ELSE m_at_tail[1] - m_at_head[1]

TailStoresBetween ==
    IF m_at_head[2] >= m_at_tail[2] THEN m_at_head[2] - m_at_tail[2]
                                    ELSE m_at_tail[2] - m_at_head[2]

\* Items in the ring at the query's head load, and at its tail load.
OccupancyAtHeadLoad == m_at_head[1] - m_at_head[2]

OccupancyAtTailLoad == m_at_tail[1] - m_at_tail[2]

\* C20 as amended: a query computes its value from the head_ of its head
\* load and the tail_ of its tail load, that is, as on a ring holding
\* (head stores done at the head load - tail stores done at the tail load)
\* mod N items.  When head_ is not stored between the two loads this is the
\* number of items in the ring at the tail load, and when tail_ is not
\* stored between them it is the number at the head load: then the value is
\* the one the query gives on a state the ring was in during the call.
C20_QueriesUnderConcurrency ==
    QueryReturned =>
        /\ WouldReturn((m_at_head[1] - m_at_tail[2]) % Size)
        /\ HeadStoresBetween = 0 =>
              OccupancyAtTailLoad \in m_seen /\ WouldReturn(OccupancyAtTailLoad)
        /\ TailStoresBetween = 0 =>
              OccupancyAtHeadLoad \in m_seen /\ WouldReturn(OccupancyAtHeadLoad)

\* size() on the empty ring of size 4 loaded head_ = 0, a push and a pop
\* completed, and it loaded tail_ = 1: it returned 3, while the ring never
\* held more than one item.
C20_Witness ==
    /\ QueryReturned
    /\ Size = 4
    /\ m_query = "size"
    /\ m_size = 3
    /\ m_seen = {0, 1}
    /\ HeadStoresBetween = 1
    /\ TailStoresBetween = 1

\* ------------------------------------------------------------- configuration

\* n is 1, 2, 4, 8, ...
IsPowerOfTwo(n) == \E k \in 0..MaxSize : n = 2 ^ k

\* No operation has run on the ring.
NeverUsed ==
    /\ p_pc = "idle"
    /\ c_pc = "idle"
    /\ hist = <<>>
    /\ accepted = <<>>
    /\ received = <<>>
    /\ head_ = 0
    /\ tail_ = 0

\* C13 (configuration validation): SPSCRing<T, N> is constructed iff N is a
\* power of two and N >= 2.  The two static_asserts together reject 0, 1
\* and every N that is not a power of two (the first alone lets 0 and 1
\* through) and accept 2, 4, 8, ...; a rejected N leaves no ring to use.
C13_ConfigValidation ==
    /\ driver = "single" =>
          /\ IsPowerOfTwo(Size) /\ Size >= 2
          /\ is_power_of_2(Size)
          /\ DOMAIN buffer_ = 0..(Size - 1)
    /\ driver = "rejected" =>
          /\ ~(IsPowerOfTwo(Size) /\ Size >= 2)
          /\ NeverUsed
    /\ driver = "config" => NeverUsed
    /\ Size \in {0, 1} => StaticAssertPowerOfTwo(Size) /\ driver # "single"
    /\ Size \in {2, 4, 8} => driver # "rejected"
    /\ Size \in {3, 5, 6, 7} => driver # "single"

\* Size 0 passes the first static_assert and is rejected by the second.
C13_Witness ==
    /\ Size = 0
    /\ driver = "rejected"
    /\ StaticAssertPowerOfTwo(Size)
    /\ ~StaticAssertAtLeastTwo(Size)

====
